---- MODULE Spec2Model ----
(***************************************************************************)
(* Model of the DICOM reconstruction pipeline of MedicalImageConverter:    *)
(* DicomReader.load_dicoms (threaded read, slice grouping, image creation) *)
(* and Image3d (geometry resolution and skipped-slice repair), from        *)
(* src/MedicalImageConverter/ReadClasses/dicom.py; the pixel <-> position  *)
(* transforms of Image, from src/MedicalImageConverter/Data/image.py; and  *)
(* the contour rasterizers compute_mask, from                              *)
(* src/MedicalImageConverter/conversion.py, and create_masks, from         *)
(* src/src/reader.py; and the constructor of Reader, from                  *)
(* src/medicalimageanalysis/reader.py.                                     *)
(*                                                                         *)
(* Encoding of numbers.  Positions are integers in units of 0.01 physical  *)
(* units (so the code's threshold 0.01 is 1), orientation components are   *)
(* integers in units of 1/10 (so the cosine 1.0 is 10 and 0.7 is 7).       *)
(* Quotients are kept as exact fractions <<numerator, denominator>>.       *)
(***************************************************************************)
EXTENDS Integers, Sequences, FiniteSets, TLC

VARIABLES files, only_tags, pc, idx, tpc, tres, ds, ds_modality, images, err,
          converter, contour_pixel, ContourSequence, slice_check, hold_mask,
          mask, box, mask_reduced, array_coordinates,
          ROIContourSequence, kk, roi_names, roi_info,
          folder_path, file_list, exclude_files

(* the state of the contour rasterizers: compute_mask of conversion.py and *)
(* create_masks of src/src/reader.py                                       *)
maskVars == <<converter, contour_pixel, ContourSequence, slice_check, hold_mask,
              mask, box, mask_reduced, array_coordinates,
              ROIContourSequence, kk, roi_names, roi_info>>

(* the structure set of create_masks and what it stores for the volume *)
roiVars == <<ROIContourSequence, kk, roi_names, roi_info>>

(* the state of DicomReader.load_dicoms, without pc and idx *)
readerVars == <<files, only_tags, tpc, tres, ds, ds_modality, images, err>>

(* the arguments of the constructor of Reader *)
argVars == <<folder_path, file_list, exclude_files>>

vars == <<files, only_tags, pc, idx, tpc, tres, ds, ds_modality, images, err, maskVars,
          argVars>>

(* Bounds of the model *)
MaxFiles == 3
MaxSlices == 5

(* Program constants *)
AcqSentinel == 1
Tolerance == 1

(* square of the orientation unit: a cross product of two orientation      *)
(* vectors is in units of 1/100                                            *)
OrientUnit2 == 10 * 10

Abs(x) == IF x < 0 THEN -x ELSE x

(***************************************************************************)
(* Datasets.  `has` is the set of tags present in the dataset ('X' in ds). *)
(* ok = FALSE is the empty list thread_process_dicom returns when dcmread  *)
(* raises.  pixel_array is the Rows x Columns pixel matrix, row by row.    *)
(***************************************************************************)
AllTags == {"Modality", "AcquisitionNumber", "ImageOrientationPatient",
            "ImagePositionPatient", "PatientPosition"}

Dataset(sop, modality, series, acq, iop, ipp, pp, absent) ==
    [ok |-> TRUE, has |-> AllTags \ absent, SOPInstanceUID |-> sop,
     Modality |-> modality, SeriesInstanceUID |-> series,
     AcquisitionNumber |-> acq, ImageOrientationPatient |-> iop,
     ImagePositionPatient |-> ipp, PatientPosition |-> pp,
     PixelSpacing |-> <<100, 100>>, SliceThickness |-> 250,
     Columns |-> 3, Rows |-> 2,
     pixel_array |-> <<sop * 37 - 200, 3 * sop, sop, -sop, 7, sop * sop>>]

EmptyList ==
    [ok |-> FALSE, has |-> {}, SOPInstanceUID |-> 0, Modality |-> "",
     SeriesInstanceUID |-> 0, AcquisitionNumber |-> <<>>,
     ImageOrientationPatient |-> <<>>, ImagePositionPatient |-> <<>>,
     PatientPosition |-> "", PixelSpacing |-> <<>>, SliceThickness |-> 0,
     Columns |-> 0, Rows |-> 0, pixel_array |-> <<>>]

(* a file dcmread cannot parse: what is on disk is irrelevant *)
Unreadable(sop) == [EmptyList EXCEPT !.SOPInstanceUID = sop]

Axial == <<10, 0, 0, 0, 10, 0>>
AxialFlipped == <<10, 0, 0, 0, -10, 0>>
Sagittal == <<0, 10, 0, 0, 0, -10>>
Coronal == <<10, 0, 0, 0, 0, -10>>
Oblique == <<7, 7, 0, 0, 0, -10>>

(* thread_process_dicom: dcmread, or [] when it raises *)
thread_process_dicom(file) == IF file.ok THEN file ELSE EmptyList

(* the files a run can be given: distinct files, listed in a fixed order   *)
(* (the order of appends to ds is decided by the threads, not this order)  *)
FilePalette ==
    << Unreadable(1),
       Dataset(2, "", 1, <<1>>, Axial, <<0, 0, 0>>, "HFS", {"Modality"}),
       Dataset(3, "CT", 1, <<>>, Axial, <<0, 0, 0>>, "HFS", {"AcquisitionNumber"}),
       Dataset(4, "CT", 1, <<1>>, Axial, <<0, 0, 250>>, "HFS", {}),
       Dataset(5, "CT", 1, <<>>, Axial, <<0, 0, 250>>, "HFS", {}),
       Dataset(6, "CT", 2, <<1>>, Axial, <<0, 0, 0>>, "HFS", {}),
       Dataset(7, "CT", 1, <<2>>, Axial, <<0, 0, 500>>, "HFS", {}),
       Dataset(8, "CT", 1, <<1>>, Oblique, <<0, 0, 0>>, "HFS", {}),
       Dataset(9, "CT", 1, <<1>>, Oblique, <<-70, 70, 0>>, "HFS", {}),
       Dataset(10, "CT", 1, <<1>>, Oblique, <<-140, 140, 0>>, "HFS", {}),
       Dataset(11, "CT", 1, <<1>>, Axial, <<>>, "HFS", {"ImagePositionPatient"}),
       Dataset(12, "CT", 1, <<1>>, <<>>, <<0, 0, 750>>, "HFS", {"ImageOrientationPatient"}),
       Dataset(13, "MR", 3, <<1>>, Sagittal, <<0, 0, 0>>, "HFS", {"PatientPosition"}),
       Dataset(14, "US", 4, <<1>>, <<>>, <<>>, "",
               {"ImageOrientationPatient", "ImagePositionPatient", "PatientPosition"}),
       Dataset(15, "PT", 5, <<1>>, Axial, <<0, 0, 0>>, "HFS", {}) >>

(***************************************************************************)
(* numpy helpers                                                           *)
(***************************************************************************)
Range(s) == {s[k] : k \in 1..Len(s)}

(* row order of np.unique(axis=0): lexicographic on equal-length rows *)
RECURSIVE LexLess(_, _)
LexLess(a, b) ==
    IF a = <<>> \/ b = <<>> THEN FALSE
    ELSE IF a[1] # b[1] THEN a[1] < b[1]
    ELSE LexLess(Tail(a), Tail(b))

(* np.unique(rows, axis=0): the distinct rows, sorted *)
RECURSIVE np_unique(_)
np_unique(rows) ==
    IF rows = {} THEN <<>>
    ELSE LET least == CHOOSE r \in rows : \A q \in rows \ {r} : LexLess(r, q)
         IN <<least>> \o np_unique(rows \ {least})

(* np.argsort on fewer than 17 keys is an insertion sort: ascending, equal  *)
(* keys keep their input order                                             *)
RECURSIVE InsertByKey(_, _, _)
InsertByKey(sorted, k, keys) ==
    IF sorted = <<>> THEN <<k>>
    ELSE IF keys[sorted[Len(sorted)]] <= keys[k] THEN Append(sorted, k)
    ELSE Append(InsertByKey(SubSeq(sorted, 1, Len(sorted) - 1), k, keys),
                sorted[Len(sorted)])

RECURSIVE ArgSortUpTo(_, _)
ArgSortUpTo(keys, n) ==
    IF n = 0 THEN <<>> ELSE InsertByKey(ArgSortUpTo(keys, n - 1), n, keys)

np_argsort(keys) == ArgSortUpTo(keys, Len(keys))

(* [s[k] for k in index] *)
Take(s, index) == [k \in 1..Len(index) |-> s[index[k]]]

(***************************************************************************)
(* DicomReader.separate_modalities_and_images                              *)
(***************************************************************************)
ModalityKeys == <<"CT", "MR", "PT", "US", "DX", "MG", "NM", "XA", "CR",
                  "RTSTRUCT", "REG", "RTDose">>

Not3d == {"US", "DX", "MG", "XA", "CR", "RTSTRUCT", "REG", "RTDose"}

(* Reader.only_modality when the caller passes none *)
only_modality == Range(ModalityKeys)

(* the row [SeriesInstanceUID, AcquisitionNumber] of sorting_tags, 1 when   *)
(* the acquisition number is absent or None                                *)
SortingTag(img) ==
    IF "AcquisitionNumber" \in img.has /\ img.AcquisitionNumber # <<>>
    THEN <<img.SeriesInstanceUID, img.AcquisitionNumber[1]>>
    ELSE <<img.SeriesInstanceUID, AcqSentinel>>

(* the axis slices are sorted along: 1 = x, 2 = y, 3 = z *)
SortAxis(orientation) ==
    LET x == Abs(orientation[1]) + Abs(orientation[4])
        y == Abs(orientation[2]) + Abs(orientation[5])
        z == Abs(orientation[3]) + Abs(orientation[6])
    IN IF x < y /\ x < z THEN 1
       ELSE IF y < x /\ y < z THEN 2
       ELSE 3

(* one orientation of one (series, acquisition): the sorted slice list *)
SortedSlices(orient_tags) ==
    LET orientation == orient_tags[1].ImageOrientationPatient
        axis == SortAxis(orientation)
        keys == [k \in 1..Len(orient_tags) |-> orient_tags[k].ImagePositionPatient[axis]]
    IN Take(orient_tags, np_argsort(keys))

(* the loop over unique_orientations; a KeyError on a missing position     *)
(* stops it, the groups added before stay                                  *)
RECURSIVE OrientationLoop(_, _, _)
OrientationLoop(image_tags, todo, acc) ==
    IF todo = <<>> \/ acc.err # "none" THEN acc
    ELSE LET orient_tags ==
                 SelectSeq(image_tags,
                           LAMBDA t : t.ImageOrientationPatient = todo[1])
         IN IF \E k \in 1..Len(orient_tags) :
                   "ImagePositionPatient" \notin orient_tags[k].has
            THEN [acc EXCEPT !.err = "KeyError"]
            ELSE OrientationLoop(image_tags, Tail(todo),
                     [acc EXCEPT !.out = Append(@, SortedSlices(orient_tags))])

(* the body of `for tag in unique_tags` *)
TagBody(image_tags, acc) ==
    IF ~("ImageOrientationPatient" \in image_tags[1].has
         /\ "ImagePositionPatient" \in image_tags[1].has)
    THEN acc
    ELSE IF \E k \in 1..Len(image_tags) :
                "ImageOrientationPatient" \notin image_tags[k].has
    THEN [acc EXCEPT !.err = "KeyError"]
    ELSE OrientationLoop(image_tags,
             np_unique({image_tags[k].ImageOrientationPatient : k \in 1..Len(image_tags)}),
             acc)

RECURSIVE TagLoop(_, _, _)
TagLoop(images_in_modality, todo, acc) ==
    IF todo = <<>> \/ acc.err # "none" THEN acc
    ELSE TagLoop(images_in_modality, Tail(todo),
             TagBody(SelectSeq(images_in_modality,
                               LAMBDA img : SortingTag(img) = todo[1]),
                     acc))

(* d['Modality'] for every d of self.ds: [] raises TypeError, a dataset     *)
(* without the tag raises KeyError; the first offender in ds decides        *)
RECURSIVE ModalityLookup(_)
ModalityLookup(dss) ==
    IF dss = <<>> THEN "none"
    ELSE IF ~dss[1].ok THEN "TypeError"
    ELSE IF "Modality" \notin dss[1].has THEN "KeyError"
    ELSE ModalityLookup(Tail(dss))

(* the body of `for modality in ...` on the groups of that modality so far *)
ModalityBody(dss, modality, acc) ==
    IF ModalityLookup(dss) # "none" THEN [acc EXCEPT !.err = ModalityLookup(dss)]
    ELSE LET images_in_modality == SelectSeq(dss, LAMBDA d : d.Modality = modality)
         IN IF Len(images_in_modality) > 0 /\ modality \in only_modality
            THEN IF modality \notin Not3d
                 THEN TagLoop(images_in_modality,
                          np_unique({SortingTag(images_in_modality[k]) :
                                        k \in 1..Len(images_in_modality)}),
                          acc)
                 ELSE [acc EXCEPT !.out = @ \o images_in_modality]
            ELSE acc

(* the whole method: the new ds_modality and the exception it ends with *)
RECURSIVE ModalityLoop(_, _, _)
ModalityLoop(dss, todo, dm) ==
    IF todo = <<>> THEN [ds_modality |-> dm, err |-> "none"]
    ELSE LET r == ModalityBody(dss, todo[1], [out |-> dm[todo[1]], err |-> "none"])
             dm2 == [dm EXCEPT ![todo[1]] = r.out]
         IN IF r.err # "none" THEN [ds_modality |-> dm2, err |-> r.err]
            ELSE ModalityLoop(dss, Tail(todo), dm2)

separate_modalities_and_images(dss, dm) == ModalityLoop(dss, ModalityKeys, dm)


(***************************************************************************)
(* Image3d                                                                 *)
(***************************************************************************)
Cross(a, b) == <<a[2] * b[3] - a[3] * b[2],
                 a[3] * b[1] - a[1] * b[3],
                 a[1] * b[2] - a[2] * b[1]>>

Dot(a, b) == a[1] * b[1] + a[2] * b[2] + a[3] * b[3]

(* list.insert(at, x) and np.insert(s, at, x, axis=0), `at` a 0-based index *)
InsertAt(s, at, x) == SubSeq(s, 1, at) \o <<x>> \o SubSeq(s, at + 1, Len(s))

(* float -> int16 of a half-integer sum/2: truncation toward zero *)
TruncHalf(sum) == IF sum >= 0 THEN sum \div 2 ELSE -((-sum) \div 2)

(* np.mean(array[ii:ii + 2], axis=0).astype(np.int16): at most two slices, *)
(* fewer when the 0-based range runs off the end of the array              *)
MeanOfPair(array, ii) ==
    LET a == array[ii + 1]
    IN IF ii + 2 <= Len(array)
       THEN [v \in 1..Len(a) |-> TruncHalf(a[v] + array[ii + 2][v])]
       ELSE a

_compute_array(image_set) == [k \in 1..Len(image_set) |-> image_set[k].pixel_array]

_compute_plane(image_set) ==
    LET axis == SortAxis(image_set[1].ImageOrientationPatient)
    IN IF axis = 1 THEN "Sagittal" ELSE IF axis = 2 THEN "Coronal" ELSE "Axial"

(* spacing[2] is a fraction of position units *)
_compute_spacing(image_set) ==
    <<image_set[1].PixelSpacing[1], image_set[1].PixelSpacing[2],
      <<image_set[1].SliceThickness, 1>>>>

_compute_dimensions(image_set) ==
    <<image_set[1].Columns, image_set[1].Rows, Len(image_set)>>

(* the functional-groups fallback is not modelled: no dataset carries it *)
_compute_orientation(self) ==
    IF "ImageOrientationPatient" \in self.image_set[1].has
    THEN [self EXCEPT !.orientation = self.image_set[1].ImageOrientationPatient]
    ELSE [self EXCEPT !.orientation = <<10, 0, 0, 0, 10, 0>>,
                      !.unverified = "Orientation"]

(* np.rot90(self.array, ...) is reached only with only_tags set, when the   *)
(* object has no attribute array                                           *)
Rot90Array(self) ==
    IF self.only_tags THEN [self EXCEPT !.raised = "AttributeError"] ELSE self

(* the orientation of a right-decubitus volume with row and column kept:   *)
(* the column is not replaced by the old row                               *)
OrientationDRUnswapped(o) == <<-o[4], -o[5], -o[6], o[4], o[5], o[6]>>

(* the corrected orientation of the HFDR/FFDR, HFP/FFP, HFDL/FFDL branches *)
OrientationDR(o) == <<-o[4], -o[5], -o[6], o[1], o[2], o[3]>>

OrientationP(o) == [k \in 1..6 |-> -o[k]]

OrientationDL(o) == <<o[4], o[5], o[6], -o[1], -o[2], -o[3]>>

_compute_origin(self) ==
    LET origin == self.image_set[1].ImagePositionPatient
        o == self.orientation
        shift0 == origin[1] - self.spacing[1] * (self.dimensions[1] - 1)
        shift1 == origin[2] - self.spacing[2] * (self.dimensions[2] - 1)
    IN IF "PatientPosition" \notin self.image_set[1].has
       THEN [self EXCEPT !.origin = origin]
       ELSE LET s1 == [self EXCEPT !.base_position = self.image_set[1].PatientPosition]
                bp == s1.base_position
                s2 == IF bp \in {"HFDR", "FFDR", "HFP", "FFP", "HFDL", "FFDL"}
                      THEN Rot90Array(s1) ELSE s1
            IN IF s2.raised # "none" THEN s2
               ELSE IF bp \in {"HFDR", "FFDR"}
               THEN [s2 EXCEPT !.origin = <<shift0, origin[2], origin[3]>>,
                               !.orientation = OrientationDR(o)]
               ELSE IF bp \in {"HFP", "FFP"}
               THEN [s2 EXCEPT !.origin = <<shift0, shift1, origin[3]>>,
                               !.orientation = OrientationP(o)]
               ELSE IF bp \in {"HFDL", "FFDL"}
               THEN [s2 EXCEPT !.origin = <<origin[1], shift1, origin[3]>>,
                               !.orientation = OrientationDL(o)]
               ELSE [s2 EXCEPT !.origin = origin]

(* the slice position read off the z coordinate, whatever the direction *)
ProjectionAlongZ(self, slice_direction, k) ==
    OrientUnit2 * self.image_set[k].ImagePositionPatient[3]

(* np.dot(slice_direction, image_set[k].ImagePositionPatient), in 1/100 of  *)
(* a position unit; k is 1-based                                           *)
Projection(self, slice_direction, k) ==
    Dot(slice_direction, self.image_set[k].ImagePositionPatient)

(* a pass that fills the gap in the array and the file paths but inserts   *)
(* no placeholder into sops                                                *)
SkippedStepSopsKept(self, slice_direction, base_spacing, ii) ==
    LET position_1 == Projection(self, slice_direction, ii + 1)
        position_2 == Projection(self, slice_direction, ii + 2)
    IN IF ii > 0 /\ Abs(base_spacing - (position_2 - position_1)) > Tolerance * OrientUnit2
       THEN [self EXCEPT !.unverified = "Skipped",
                         !.skipped_slice = <<ii + 1>>,
                         !.dimensions = <<@[1], @[2], @[3] + 1>>,
                         !.filepaths = InsertAt(@, ii + 1, 0),
                         !.array = InsertAt(@, ii + 1, MeanOfPair(self.array, ii))]
       ELSE self

(* one pass of the loop body of _find_skipped_slices, ii the 0-based index *)
SkippedStep(self, slice_direction, base_spacing, ii) ==
    LET position_1 == Projection(self, slice_direction, ii + 1)
        position_2 == Projection(self, slice_direction, ii + 2)
    IN IF ii > 0 /\ Abs(base_spacing - (position_2 - position_1)) > Tolerance * OrientUnit2
       THEN [self EXCEPT !.unverified = "Skipped",
                         !.skipped_slice = <<ii + 1>>,
                         !.dimensions = <<@[1], @[2], @[3] + 1>>,
                         !.filepaths = InsertAt(@, ii + 1, 0),
                         !.sops = InsertAt(@, ii + 1, 0),
                         !.array = InsertAt(@, ii + 1, MeanOfPair(self.array, ii))]
       ELSE self

RECURSIVE SkippedLoop(_, _, _, _)
SkippedLoop(self, slice_direction, base_spacing, ii) ==
    IF ii >= Len(self.image_set) - 1 THEN self
    ELSE SkippedLoop(SkippedStep(self, slice_direction, base_spacing, ii),
                     slice_direction, base_spacing, ii + 1)

_find_skipped_slices(self, slice_direction) ==
    SkippedLoop(self, slice_direction,
                Projection(self, slice_direction, 2) - Projection(self, slice_direction, 1),
                0)

(* |(second - first) - (last - first) / (n - 1)| > 0.01, cleared of the     *)
(* denominator                                                             *)
GapTestFails(first, second, last, n) ==
    Abs((n - 1) * (second - first) - (last - first)) > Tolerance * OrientUnit2 * (n - 1)

_compute_image_matrix(self) ==
    LET row_direction == SubSeq(self.orientation, 1, 3)
        column_direction == SubSeq(self.orientation, 4, 6)
        slice_direction == Cross(row_direction, column_direction)
        n == Len(self.image_set)
        first == Projection(self, slice_direction, 1)
        second == Projection(self, slice_direction, 2)
        last == Projection(self, slice_direction, n)
        s1 == IF n > 1
              THEN IF GapTestFails(first, second, last, n)
                   THEN LET s0 == IF ~self.only_tags
                                  THEN _find_skipped_slices(self, slice_direction)
                                  ELSE self
                        IN [s0 EXCEPT !.spacing[3] = <<second - first, OrientUnit2>>]
                   ELSE [self EXCEPT !.spacing[3] = <<last - first, OrientUnit2 * (n - 1)>>]
              ELSE self
    IN [s1 EXCEPT !.image_matrix =
            [rotation |-> <<row_direction, column_direction, slice_direction>>,
             translation |-> [k \in 1..3 |-> -s1.origin[k]]]]

(* Image3d.__init__: the object after construction, or the exception in    *)
(* `raised` with the attributes set before it                              *)
Image3d(image_set, tags_only) ==
    LET s0 == [image_set |-> image_set, only_tags |-> tags_only, raised |-> "none",
               unverified |-> "None", base_position |-> "None",
               skipped_slice |-> <<>>,
               array |-> IF tags_only THEN <<>> ELSE _compute_array(image_set),
               filepaths |-> [k \in 1..Len(image_set) |-> image_set[k].SOPInstanceUID],
               sops |-> [k \in 1..Len(image_set) |-> image_set[k].SOPInstanceUID],
               plane |-> _compute_plane(image_set),
               spacing |-> _compute_spacing(image_set),
               dimensions |-> _compute_dimensions(image_set),
               orientation |-> <<>>, origin |-> <<>>,
               image_matrix |-> [rotation |-> <<>>, translation |-> <<>>]]
        s1 == _compute_orientation(s0)
        s2 == _compute_origin(s1)
    IN IF s2.raised # "none" THEN s2 ELSE _compute_image_matrix(s2)


(***************************************************************************)
(* DicomReader.image_creation: only CT and MR groups become Image3d; the   *)
(* DX, MG and RTSTRUCT branches are not modelled (no file of the model has *)
(* these modalities), the other modalities are skipped by the code         *)
(***************************************************************************)
RECURSIVE ImageSetLoop(_, _, _, _)
ImageSetLoop(modality, todo, tags_only, acc) ==
    IF todo = <<>> \/ acc.err # "none" THEN acc
    ELSE IF modality \in {"CT", "MR"}
    THEN LET img == Image3d(todo[1], tags_only)
         IN IF img.raised # "none"
            THEN [acc EXCEPT !.err = img.raised]
            ELSE ImageSetLoop(modality, Tail(todo), tags_only,
                              [acc EXCEPT !.out = Append(@, img)])
    ELSE ImageSetLoop(modality, Tail(todo), tags_only, acc)

RECURSIVE CreationLoop(_, _, _, _)
CreationLoop(dm, todo, tags_only, acc) ==
    IF todo = <<>> \/ acc.err # "none" THEN acc
    ELSE CreationLoop(dm, Tail(todo), tags_only,
                      ImageSetLoop(todo[1], dm[todo[1]], tags_only, acc))

image_creation(dm, tags_only) ==
    CreationLoop(dm, ModalityKeys, tags_only, [out |-> <<>>, err |-> "none"])

(***************************************************************************)
(* DicomReader.read and load_dicoms as a state machine                     *)
(***************************************************************************)
Threads == 1..Len(files)

(* a racy append: two writers take the same slot, the later one wins *)
ListAppendRacy(list, x) ==
    IF list = <<>> THEN <<x>> ELSE [list EXCEPT ![Len(list)] = x]

(* list.append under the interpreter lock: one atomic step *)
ListAppend(list, x) == Append(list, x)

(* a join that returns as soon as the thread was started *)
JoinReturnsEarly(t) == tpc[t] # "idle"

(* thread.join() returns once the thread has finished *)
JoinReturns(t) == tpc[t] = "done"

(* the file lists of a run: the subsets of the palette, in palette order *)
RECURSIVE PickFiles(_, _)
PickFiles(from, n) ==
    IF n = 0 THEN {<<>>}
    ELSE IF from > Len(FilePalette) THEN {}
    ELSE {<<FilePalette[from]>> \o rest : rest \in PickFiles(from + 1, n - 1)}
         \cup PickFiles(from + 1, n)

FileLists == UNION {PickFiles(1, n) : n \in 1..MaxFiles}

EmptyModality == [m \in Range(ModalityKeys) |-> <<>>]

(* a list argument left at its default None, and one that was given *)
NotGiven == [given |-> FALSE, paths |-> <<>>]

Given(list) == [given |-> TRUE, paths |-> list]

(* no rasterizer is running and no Reader is being constructed *)
MaskIdle ==
    /\ converter = "none"
    /\ contour_pixel = <<>>
    /\ ContourSequence = <<>>
    /\ slice_check = <<>>
    /\ hold_mask = <<>>
    /\ mask = <<>>
    /\ box = <<>>
    /\ mask_reduced = <<>>
    /\ array_coordinates = <<>>
    /\ ROIContourSequence = <<>>
    /\ kk = 0
    /\ roi_names = <<>>
    /\ roi_info = <<>>
    /\ folder_path = "None"
    /\ file_list = NotGiven
    /\ exclude_files = NotGiven

Init ==
    /\ files \in FileLists
    /\ only_tags \in BOOLEAN
    /\ pc = "read_start"
    /\ idx = 0
    /\ tpc = [t \in 1..Len(files) |-> "idle"]
    /\ tres = [t \in 1..Len(files) |-> EmptyList]
    /\ ds = <<>>
    /\ ds_modality = EmptyModality
    /\ images = <<>>
    /\ err = "none"
    /\ MaskIdle

(* for file_path in files: thread.start() *)
StartThread ==
    /\ pc = "read_start"
    /\ tpc' = [tpc EXCEPT ![idx + 1] = "started"]
    /\ IF idx + 1 = Len(files)
       THEN pc' = "read_join" /\ idx' = 0
       ELSE pc' = pc /\ idx' = idx + 1
    /\ UNCHANGED <<files, only_tags, tres, ds, ds_modality, images, err, maskVars, argVars>>

(* read_file_thread: the call of thread_process_dicom *)
ThreadParse(t) ==
    /\ tpc[t] = "started"
    /\ tres' = [tres EXCEPT ![t] = thread_process_dicom(files[t])]
    /\ tpc' = [tpc EXCEPT ![t] = "parsed"]
    /\ UNCHANGED <<files, only_tags, pc, idx, ds, ds_modality, images, err, maskVars, argVars>>

(* read_file_thread: self.ds.append(result) *)
ThreadAppend(t) ==
    /\ tpc[t] = "parsed"
    /\ ds' = ListAppend(ds, tres[t])
    /\ tpc' = [tpc EXCEPT ![t] = "done"]
    /\ UNCHANGED <<files, only_tags, pc, idx, tres, ds_modality, images, err, maskVars, argVars>>

(* for thread in threads: thread.join() *)
JoinThread ==
    /\ pc = "read_join"
    /\ JoinReturns(idx + 1)
    /\ IF idx + 1 = Len(files)
       THEN pc' = "separate" /\ idx' = 0
       ELSE pc' = pc /\ idx' = idx + 1
    /\ UNCHANGED <<files, only_tags, tpc, tres, ds, ds_modality, images, err, maskVars, argVars>>

Separate ==
    /\ pc = "separate"
    /\ LET r == separate_modalities_and_images(ds, ds_modality)
       IN /\ ds_modality' = r.ds_modality
          /\ err' = r.err
          /\ pc' = IF r.err = "none" THEN "image_creation" ELSE "raised"
    /\ UNCHANGED <<files, only_tags, idx, tpc, tres, ds, images, maskVars, argVars>>

ImageCreation ==
    /\ pc = "image_creation"
    /\ LET r == image_creation(ds_modality, only_tags)
       IN /\ images' = r.out
          /\ err' = r.err
          /\ pc' = IF r.err = "none" THEN "done" ELSE "raised"
    /\ UNCHANGED <<files, only_tags, idx, tpc, tres, ds, ds_modality, maskVars, argVars>>

Next ==
    \/ StartThread
    \/ \E t \in Threads : ThreadParse(t)
    \/ \E t \in Threads : ThreadAppend(t)
    \/ JoinThread
    \/ Separate
    \/ ImageCreation

Spec == Init /\ [][Next]_vars


(***************************************************************************)
(* Image3d on one stack of slices: the run starts after read() has         *)
(* returned with the stack's datasets in ds                                *)
(***************************************************************************)
GapSet == {100, 101, 103, 200, 300}

RECURSIVE SumTo(_, _)
SumTo(gaps, k) == IF k = 0 THEN 0 ELSE SumTo(gaps, k - 1) + gaps[k]

Stack(gaps, iop, pp) ==
    [k \in 1..(Len(gaps) + 1) |->
        Dataset(k, "CT", 1, <<1>>, iop, <<0, 0, SumTo(gaps, k - 1)>>, pp, {})]

Stacks ==
    {Stack(gaps, iop, pp) :
        gaps \in UNION {[1..m -> GapSet] : m \in 0..(MaxSlices - 1)},
        iop \in {Axial, AxialFlipped},
        pp \in {"HFS", "HFP", "HFDL", "HFDR"}}

InitImage3d ==
    /\ files \in Stacks
    /\ only_tags \in BOOLEAN
    /\ pc = "separate"
    /\ idx = 0
    /\ tpc = [t \in 1..Len(files) |-> "done"]
    /\ tres = [t \in 1..Len(files) |-> thread_process_dicom(files[t])]
    /\ ds = [t \in 1..Len(files) |-> thread_process_dicom(files[t])]
    /\ ds_modality = EmptyModality
    /\ images = <<>>
    /\ err = "none"
    /\ MaskIdle

NextImage3d == Separate \/ ImageCreation

SpecImage3d == InitImage3d /\ [][NextImage3d]_vars


(***************************************************************************)
(* Shared vocabulary of the claims                                         *)
(***************************************************************************)
ReadReturned == pc \notin {"read_start", "read_join"}

(* separate_modalities_and_images has returned normally *)
Grouped == pc \in {"image_creation", "done"} \/ (pc = "raised" /\ err = "AttributeError")

(* separate_modalities_and_images has run, normally or not *)
SeparateRan == pc \in {"image_creation", "done", "raised"}

Modalities3d == Range(ModalityKeys) \ Not3d

(* the slice lists grouping produced for the 3D modalities *)
Groups3d == UNION {Range(ds_modality[m]) : m \in Modalities3d}

WellFormed(d) == d.ok /\ "Modality" \in d.has

Records3d == {d \in Range(ds) : WellFormed(d) /\ d.Modality \in Modalities3d}

(***************************************************************************)
(* C1: grouping starts only after every ingestion thread has finished: in  *)
(* every state in which read() has returned or grouping has produced       *)
(* anything, all threads are done.                                         *)
(***************************************************************************)
C1_JoinBarrier ==
    (ReadReturned \/ ds_modality # EmptyModality)
        => \A t \in Threads : tpc[t] = "done"

C1_Witness ==
    /\ pc = "image_creation"
    /\ Len(files) = MaxFiles
    /\ ds_modality["CT"] # <<>>
    /\ ds[1] = thread_process_dicom(files[Len(files)])

(***************************************************************************)
(* C2: when read() has returned, ds holds exactly one entry per input file *)
(* (the result of parsing that file), whatever the interleaving.           *)
(***************************************************************************)
C2_OneEntryPerFile ==
    ReadReturned =>
        /\ Len(ds) = Len(files)
        /\ \A t \in Threads :
              Cardinality({k \in 1..Len(ds) : ds[k] = thread_process_dicom(files[t])}) = 1

C2_Witness ==
    /\ pc = "separate"
    /\ Len(files) = MaxFiles
    /\ ds[1] = thread_process_dicom(files[2])
    /\ ds[2] = thread_process_dicom(files[Len(files)])
    /\ ~ds[3].ok

(***************************************************************************)
(* C3: a file that fails to parse or has no Modality tag is dropped before *)
(* grouping and raises nothing: grouping ends as it does on the input      *)
(* without these files.                                                    *)
(***************************************************************************)
WithoutMalformed(dss) == SelectSeq(dss, WellFormed)

C3_MalformedDropped ==
    SeparateRan =>
        LET r == separate_modalities_and_images(WithoutMalformed(ds), EmptyModality)
        IN /\ ds_modality = r.ds_modality
           /\ (err = r.err \/ err = "AttributeError")

(***************************************************************************)
(* C4: two records of a 3D modality are in the same volume if and only if  *)
(* they agree on series, on acquisition number (absent counting as the     *)
(* sentinel) and on the 6-component orientation; so the number of volumes  *)
(* of a modality is the number of distinct such keys.                      *)
(***************************************************************************)
SameVolume(a, b) == \E g \in Groups3d : a \in Range(g) /\ b \in Range(g)

SameKey(a, b) ==
    /\ a.Modality = b.Modality
    /\ SortingTag(a) = SortingTag(b)
    /\ "ImageOrientationPatient" \in a.has
    /\ "ImageOrientationPatient" \in b.has
    /\ a.ImageOrientationPatient = b.ImageOrientationPatient

(* the records that carry the geometry tags of a slice *)
Slices3d ==
    {d \in Records3d : {"ImageOrientationPatient", "ImagePositionPatient"} \subseteq d.has}

C4_GroupingKey ==
    Grouped =>
        \A a \in Slices3d : \A b \in Slices3d \ {a} :
            SameVolume(a, b) <=> SameKey(a, b)

(***************************************************************************)
(* C5: in every slice list of a 3D modality the slices ascend along the    *)
(* dominant axis, an axis whose row and column orientation components have *)
(* the smallest combined magnitude.                                        *)
(***************************************************************************)
AxisSum(orientation, axis) == Abs(orientation[axis]) + Abs(orientation[axis + 3])

SmallestAxes(orientation) ==
    {a \in 1..3 : \A b \in 1..3 : AxisSum(orientation, a) <= AxisSum(orientation, b)}

AscendingAlong(g, axis) ==
    \A k \in 1..(Len(g) - 1) :
        g[k].ImagePositionPatient[axis] <= g[k + 1].ImagePositionPatient[axis]

C5_SortedAlongDominantAxis ==
    \A g \in Groups3d :
        \E axis \in SmallestAxes(g[1].ImageOrientationPatient) : AscendingAlong(g, axis)

(***************************************************************************)
(* C6: the outcome of grouping does not depend on the order in which the   *)
(* threads appended to ds: it is the outcome for the records in file order.*)
(***************************************************************************)
InFileOrder == [t \in 1..Len(files) |-> thread_process_dicom(files[t])]

C6_OrderIndependent ==
    SeparateRan =>
        LET r == separate_modalities_and_images(InFileOrder, EmptyModality)
        IN /\ ds_modality = r.ds_modality
           /\ (r.err = "none" <=> Grouped)


(***************************************************************************)
(* Vocabulary of the claims on Image3d.  A volume is judged against the    *)
(* slice list it was built from (image_set), whose inter-slice gaps are    *)
(* measured along the axis the list was sorted on; gap k lies between      *)
(* slices k and k + 1 (1-based), that is before the 0-based index k.       *)
(***************************************************************************)
Built == pc = "done"

NumGaps(v) == Len(v.image_set) - 1

Gap(v, k) ==
    LET axis == SortAxis(v.image_set[1].ImageOrientationPatient)
    IN v.image_set[k + 1].ImagePositionPatient[axis]
         - v.image_set[k].ImagePositionPatient[axis]

(* gap k deviates from the first gap by more than 0.01 *)
Irregular(v, k) == k > 1 /\ Abs(Gap(v, k) - Gap(v, 1)) > Tolerance

IrregularGaps(v) == {k \in 1..NumGaps(v) : Irregular(v, k)}

(* gap k is the one enlarged gap: the others agree with each other within  *)
(* 0.01 and gap k exceeds each of them by more than 0.01                   *)
OnlyEnlargedGap(v, k) ==
    /\ NumGaps(v) >= 2
    /\ \A i \in 1..NumGaps(v) : \A j \in 1..NumGaps(v) :
          (i # k /\ j # k) => Abs(Gap(v, i) - Gap(v, j)) <= Tolerance
    /\ \A i \in 1..NumGaps(v) : i # k => Gap(v, k) - Gap(v, i) > Tolerance

(* x is the element-wise mean of a and b, up to the rounding of int16 *)
IsMeanOf(x, a, b) ==
    /\ Len(x) = Len(a)
    /\ \A e \in 1..Len(a) : Abs(2 * x[e] - (a[e] + b[e])) <= 1

(* first-to-second gap against the uniform gap, as the claim words it *)
FirstGapOffUniform(v) ==
    LET n == Len(v.image_set)
        total == SumTo([k \in 1..NumGaps(v) |-> Gap(v, k)], NumGaps(v))
    IN Abs((n - 1) * Gap(v, 1) - total) > Tolerance * (n - 1)

(* equality of two fractions up to sign *)
FracAbsEq(p, q) == Abs(p[1] * q[2]) = Abs(q[1] * p[2])

(***************************************************************************)
(* C7: a slice list with exactly one enlarged gap, wherever the gap lies,  *)
(* gets exactly one slice inserted, at the index of the gap, the depth     *)
(* grows by 1 and the new slice is the mean of its two neighbours.         *)
(***************************************************************************)
C7_OneGapRepaired ==
    Built =>
        \A i \in 1..Len(images) :
            LET v == images[i]
                orig == _compute_array(v.image_set)
            IN \A k \in 1..NumGaps(v) :
                  (~v.only_tags /\ OnlyEnlargedGap(v, k)) =>
                      /\ v.dimensions[3] = Len(v.image_set) + 1
                      /\ Len(v.array) = Len(v.image_set) + 1
                      /\ v.skipped_slice = <<k>>
                      /\ SubSeq(v.array, 1, k) = SubSeq(orig, 1, k)
                      /\ SubSeq(v.array, k + 2, Len(v.array)) = SubSeq(orig, k + 1, Len(orig))
                      /\ IsMeanOf(v.array[k + 1], orig[k], orig[k + 1])

(***************************************************************************)
(* C8: however many gaps are irregular, at most one slice is synthesized,  *)
(* the depth grows by at most 1 and the recorded index is that of the      *)
(* first irregular gap.                                                    *)
(***************************************************************************)
C8_OnlyFirstGapRepaired ==
    Built =>
        \A i \in 1..Len(images) :
            LET v == images[i]
            IN /\ v.dimensions[3] <= Len(v.image_set) + 1
               /\ (~v.only_tags => Len(v.array) <= Len(v.image_set) + 1)
               /\ Len(v.sops) <= Len(v.image_set) + 1
               /\ (v.skipped_slice # <<>> =>
                      /\ IrregularGaps(v) # {}
                      /\ \A k \in IrregularGaps(v) : v.skipped_slice[1] <= k)

(***************************************************************************)
(* C9: every volume with a gap that deviates from the first gap by more    *)
(* than 0.01 ends with unverified = "Skipped".                             *)
(***************************************************************************)
C9_IrregularFlagged ==
    Built =>
        \A i \in 1..Len(images) :
            IrregularGaps(images[i]) # {} => images[i].unverified = "Skipped"

(***************************************************************************)
(* C10: when the first-to-second gap differs from the uniform gap by more  *)
(* than 0.01, spacing[2] is the first-to-second gap and the volume is      *)
(* flagged unverified; otherwise spacing[2] is the uniform gap.            *)
(***************************************************************************)
C10_SpacingRule ==
    Built =>
        \A i \in 1..Len(images) :
            LET v == images[i]
                n == Len(v.image_set)
                total == SumTo([k \in 1..NumGaps(v) |-> Gap(v, k)], NumGaps(v))
            IN n > 1 =>
                  IF FirstGapOffUniform(v)
                  THEN /\ FracAbsEq(v.spacing[3], <<Gap(v, 1), 1>>)
                       /\ v.unverified # "None"
                  ELSE FracAbsEq(v.spacing[3], <<total, n - 1>>)

(***************************************************************************)
(* Vocabulary of the claims on the resolved geometry.  The through-plane   *)
(* direction is the cross product of the row and column cosines of the     *)
(* first slice; projected positions are in 1/100 of a position unit.       *)
(***************************************************************************)
ThroughPlane(v) ==
    LET iop == v.image_set[1].ImageOrientationPatient
    IN Cross(SubSeq(iop, 1, 3), SubSeq(iop, 4, 6))

ProjectedPos(v, k) == Dot(ThroughPlane(v), v.image_set[k].ImagePositionPatient)

UniformSpacing(v) ==
    \A k \in 1..NumGaps(v) :
        ProjectedPos(v, k + 1) - ProjectedPos(v, k) = ProjectedPos(v, 2) - ProjectedPos(v, 1)

(* equality of two fractions with positive denominators *)
FracEq(p, q) == p[1] * q[2] = q[1] * p[2]

(***************************************************************************)
(* C11: for every volume built from at least two slices whose projected    *)
(* positions are uniformly spaced, spacing[2] is (last - first) / (n - 1), *)
(* first and last being the projections of the first and last slice        *)
(* position on the through-plane direction.                                *)
(***************************************************************************)
C11_UniformSpacing ==
    Built =>
        \A i \in 1..Len(images) :
            LET v == images[i]
                n == Len(v.image_set)
            IN (n >= 2 /\ UniformSpacing(v)) =>
                  FracEq(v.spacing[3],
                         <<ProjectedPos(v, n) - ProjectedPos(v, 1), OrientUnit2 * (n - 1)>>)

C11_Witness ==
    /\ Built
    /\ \E i \in 1..Len(images) :
          LET v == images[i]
          IN /\ Len(v.image_set) >= 3
             /\ UniformSpacing(v)
             /\ v.image_set[1].ImageOrientationPatient = AxialFlipped
             /\ FracEq(v.spacing[3], <<-103, 1>>)
             /\ ~FracEq(v.spacing[3], <<v.image_set[1].SliceThickness, 1>>)

(***************************************************************************)
(* Vocabulary of the claims on the patient-position correction.            *)
(***************************************************************************)
NonCanonical == {"HFDR", "FFDR", "HFP", "FFP", "HFDL", "FFDL"}

(* the number of quarter turns the position calls for *)
QuarterTurns(pp) ==
    IF pp \in {"HFDR", "FFDR"} THEN 3
    ELSE IF pp \in {"HFP", "FFP"} THEN 2
    ELSE IF pp \in {"HFDL", "FFDL"} THEN 1
    ELSE 0

AsMatrix(flat, rows, cols) ==
    [r \in 1..rows |-> [c \in 1..cols |-> flat[(r - 1) * cols + c]]]

RECURSIVE Flatten(_)
Flatten(m) == IF m = <<>> THEN <<>> ELSE m[1] \o Flatten(Tail(m))

(* a counter-clockwise quarter turn of a matrix: out[i][j] = m[j][C + 1 - i] *)
QuarterTurn(m) ==
    [i \in 1..Len(m[1]) |-> [j \in 1..Len(m) |-> m[j][Len(m[1]) + 1 - i]]]

RECURSIVE Turned(_, _)
Turned(m, times) == IF times = 0 THEN m ELSE Turned(QuarterTurn(m), times - 1)

(* the pixels of slice k of the input, turned as its position calls for *)
TurnedSlice(v, k) ==
    LET d == v.image_set[k]
    IN Flatten(Turned(AsMatrix(d.pixel_array, d.Rows, d.Columns),
                      QuarterTurns(v.image_set[1].PatientPosition)))

RowOf(o) == SubSeq(o, 1, 3)
ColOf(o) == SubSeq(o, 4, 6)
Neg(a) == [k \in 1..Len(a) |-> -a[k]]

(* the orientation is the input's with its vectors negated and/or swapped, *)
(* and is not the input's                                                  *)
OrientationCorrected(v) ==
    LET o == v.image_set[1].ImageOrientationPatient
        signed == {RowOf(o), ColOf(o), Neg(RowOf(o)), Neg(ColOf(o))}
    IN /\ v.orientation # o
       /\ RowOf(v.orientation) \in signed
       /\ ColOf(v.orientation) \in signed

(* the origin is the first slice position moved by spacing x (dimension - 1) *)
(* along one or both in-plane axes                                         *)
OriginShifted(v) ==
    LET p == v.image_set[1].ImagePositionPatient
    IN \E axes \in (SUBSET {1, 2}) \ {{}} :
          \A a \in 1..3 :
              IF a \in axes
              THEN Abs(v.origin[a] - p[a]) = v.spacing[a] * (v.dimensions[a] - 1)
              ELSE v.origin[a] = p[a]

(***************************************************************************)
(* C12: a volume built with its pixels from slices of a non-canonical      *)
(* patient position holds every input slice turned by the position's       *)
(* quarter turns, a negated/reordered orientation and an origin shifted by *)
(* spacing x (dimension - 1); for a canonical position the pixels, the     *)
(* orientation and the origin are the input's.                             *)
(***************************************************************************)
C12_WholeCorrection ==
    Built =>
        \A i \in 1..Len(images) :
            LET v == images[i]
                first == v.image_set[1]
            IN ~v.only_tags =>
                  IF first.PatientPosition \in NonCanonical
                  THEN /\ \A k \in 1..Len(v.image_set) : TurnedSlice(v, k) \in Range(v.array)
                       /\ OrientationCorrected(v)
                       /\ OriginShifted(v)
                  ELSE /\ \A k \in 1..Len(v.image_set) :
                              v.image_set[k].pixel_array \in Range(v.array)
                       /\ v.orientation = first.ImageOrientationPatient
                       /\ v.origin = first.ImagePositionPatient

(* the position whose quarter turns undo those of pp *)
InversePosition(pp) ==
    IF pp = "HFDR" THEN "HFDL" ELSE IF pp = "HFDL" THEN "HFDR"
    ELSE IF pp = "FFDR" THEN "FFDL" ELSE IF pp = "FFDL" THEN "FFDR"
    ELSE pp

(* the volume v run through the correction again, as a volume whose first  *)
(* slice lies at v's origin and carries the inverse position               *)
CorrectedBack(v) ==
    LET first == v.image_set[1]
        again == [first EXCEPT !.ImagePositionPatient = v.origin,
                               !.PatientPosition = InversePosition(first.PatientPosition)]
    IN _compute_origin([v EXCEPT !.image_set = <<again>>])

(***************************************************************************)
(* C13: for every volume built from slices of a non-supine position, the   *)
(* correction followed by the correction of the inverse position gives     *)
(* back the origin and the orientation of the input (round-trip law).      *)
(***************************************************************************)
C13_RoundTrip ==
    Built =>
        \A i \in 1..Len(images) :
            LET v == images[i]
                first == v.image_set[1]
            IN (~v.only_tags /\ first.PatientPosition \in NonCanonical) =>
                  /\ CorrectedBack(v).orientation = first.ImageOrientationPatient
                  /\ CorrectedBack(v).origin = first.ImagePositionPatient

(* row and column cosines are unit vectors at right angles *)
Orthonormal(o) ==
    /\ Dot(RowOf(o), RowOf(o)) = OrientUnit2
    /\ Dot(ColOf(o), ColOf(o)) = OrientUnit2
    /\ Dot(RowOf(o), ColOf(o)) = 0

(***************************************************************************)
(* C14: if the row and column vectors of the first slice are unit-length   *)
(* and orthogonal, so are the row and column vectors of the volume built   *)
(* from it, whatever patient-position correction was applied.              *)
(***************************************************************************)
C14_OrientationOrthonormal ==
    Built =>
        \A i \in 1..Len(images) :
            Orthonormal(images[i].image_set[1].ImageOrientationPatient)
                => Orthonormal(images[i].orientation)

C14_Witness ==
    /\ Built
    /\ \E i \in 1..Len(images) :
          LET v == images[i]
          IN /\ v.base_position = "HFDR"
             /\ v.image_set[1].ImageOrientationPatient = AxialFlipped
             /\ v.orientation = <<0, 10, 0, 10, 0, 0>>
             /\ Orthonormal(v.orientation)

(* load_dicoms has ended, normally or with an exception *)
Ended == pc \in {"done", "raised"}

(* d is a positioned slice of a group none of whose slices carries the     *)
(* orientation tag                                                         *)
InGroupWithoutOrientation(d) ==
    /\ d.Modality \in {"CT", "MR"}
    /\ "ImagePositionPatient" \in d.has
    /\ \A e \in Records3d :
          (e.Modality = d.Modality /\ SortingTag(e) = SortingTag(d))
              => "ImageOrientationPatient" \notin e.has

(***************************************************************************)
(* C15: when every file of the run is a well-formed dataset, a group whose *)
(* slices carry no orientation tag still becomes a volume, with the        *)
(* orientation (1,0,0,0,1,0) and unverified = "Orientation"; the run does  *)
(* not raise and the slices of the group are in the volume.                *)
(***************************************************************************)
C15_MissingOrientationDefaults ==
    (Ended /\ \A d \in Range(ds) : WellFormed(d)) =>
        \A d \in Records3d :
            InGroupWithoutOrientation(d) =>
                /\ pc = "done"
                /\ \E i \in 1..Len(images) :
                      /\ d \in Range(images[i].image_set)
                      /\ images[i].orientation = <<10, 0, 0, 0, 10, 0>>
                      /\ images[i].unverified = "Orientation"


(***************************************************************************)
(* Image (Data/image.py): the pixel <-> position transforms.  Matrix       *)
(* entries, spacings and positions are exact fractions                     *)
(* <<numerator, denominator>> in lowest terms, positions in units of 0.01; *)
(* a zero denominator is the inf or nan of a float division by zero and    *)
(* stays one through every later operation.                                *)
(***************************************************************************)
RECURSIVE GCD(_, _)
GCD(a, b) == IF b = 0 THEN a ELSE GCD(b, a % b)

FracNorm(p) ==
    IF p[2] = 0 THEN <<0, 0>>
    ELSE LET g == GCD(Abs(p[1]), Abs(p[2]))
             s == IF p[2] < 0 THEN -1 ELSE 1
         IN <<s * (p[1] \div g), s * (p[2] \div g)>>

FracAdd(p, q) == FracNorm(<<p[1] * q[2] + q[1] * p[2], p[2] * q[2]>>)

FracMul(p, q) == FracNorm(<<p[1] * q[1], p[2] * q[2]>>)

FracDiv(p, q) == FracNorm(<<p[1] * q[2], p[2] * q[1]>>)

FracOfInt(n) == <<n, 1>>

(* Image.input: the geometry the Image takes over from the reader's volume. *)
(* matrix is the 3x3 direction block the transforms index (rows 1 and 2 in *)
(* tenths, row 3, a cross product, in hundredths); dimensions is the shape *)
(* of the transposed array                                                 *)
input(image) ==
    LET rot == image.image_matrix.rotation
    IN [matrix |-> << [a \in 1..3 |-> FracNorm(<<rot[1][a], 10>>)],
                      [a \in 1..3 |-> FracNorm(<<rot[2][a], 10>>)],
                      [a \in 1..3 |-> FracNorm(<<rot[3][a], OrientUnit2>>)] >>,
        spacing |-> <<FracOfInt(image.spacing[1]), FracOfInt(image.spacing[2]),
                      FracNorm(image.spacing[3])>>,
        origin |-> [a \in 1..3 |-> FracOfInt(image.origin[a])],
        dimensions |-> <<image.dimensions[1], image.dimensions[2], Len(image.array)>>]

(* a 4x4 transform is kept as its 3x3 block `linear` (linear[r][c]) and    *)
(* its last column `translation`                                           *)
compute_matrix_position_to_pixel(self) ==
    LET matrix == [i \in 1..3 |->
                      [a \in 1..3 |-> FracDiv(self.matrix[i][a], self.spacing[i])]]
        neg(i, a) == FracMul(FracOfInt(-1), matrix[i][a])
    IN [linear |-> matrix,
        translation |->
            [i \in 1..3 |->
                FracAdd(FracAdd(FracMul(self.origin[1], neg(i, 1)),
                                FracMul(self.origin[2], neg(i, 2))),
                        FracMul(self.origin[3], neg(i, 3)))]]

(* the transform whose last column is the negated origin, as image_matrix  *)
(* stores it                                                               *)
compute_matrix_pixel_to_position_negated(self) ==
    [linear |-> [a \in 1..3 |->
                    [i \in 1..3 |-> FracMul(self.matrix[i][a], self.spacing[i])]],
     translation |-> [a \in 1..3 |-> FracMul(FracOfInt(-1), self.origin[a])]]

compute_matrix_pixel_to_position(self) ==
    [linear |-> [a \in 1..3 |->
                    [i \in 1..3 |-> FracMul(self.matrix[i][a], self.spacing[i])]],
     translation |-> self.origin]

(* np.asarray([x, y, z, 1]).dot(matrix.T)[:3] *)
Transform(matrix, point) ==
    [r \in 1..3 |->
        FracAdd(FracAdd(FracAdd(FracMul(matrix.linear[r][1], point[1]),
                                FracMul(matrix.linear[r][2], point[2])),
                        FracMul(matrix.linear[r][3], point[3])),
                matrix.translation[r])]

(***************************************************************************)
(* Vocabulary of the claims on the transforms                              *)
(***************************************************************************)
PixelIndex(p) == [a \in 1..3 |-> FracOfInt(p[a])]

InBounds(img) ==
    {<<x, y, z>> : x \in 0..(img.dimensions[1] - 1),
                   y \in 0..(img.dimensions[2] - 1),
                   z \in 0..(img.dimensions[3] - 1)}

C17_InverseTransforms ==
    Built =>
        \A i \in 1..Len(images) :
            LET v == images[i]
            IN (~v.only_tags /\ Orthonormal(v.orientation)) =>
                  \A p \in InBounds(input(v)) :
                      Transform(compute_matrix_position_to_pixel(input(v)),
                                Transform(compute_matrix_pixel_to_position(input(v)),
                                          PixelIndex(p)))
                          = PixelIndex(p)

(* the physical axis a plane name stands for: x Sagittal, y Coronal, z Axial *)
PlaneAxis(plane) ==
    IF plane = "Sagittal" THEN 1 ELSE IF plane = "Coronal" THEN 2 ELSE 3

(***************************************************************************)
(* C18: the plane of every built volume is one of Sagittal, Coronal and    *)
(* Axial, and it is the plane of an axis whose summed absolute row and     *)
(* column cosines are the smallest of the three axes.                      *)
(***************************************************************************)
C18_PlaneClassification ==
    Built =>
        \A i \in 1..Len(images) :
            LET v == images[i]
            IN /\ v.plane \in {"Sagittal", "Coronal", "Axial"}
               /\ PlaneAxis(v.plane) \in SmallestAxes(v.image_set[1].ImageOrientationPatient)


(***************************************************************************)
(* The contour rasterizers: ContourToMask.compute_mask and                 *)
(* ContourToDiscreteMesh.compute_mask (conversion.py) and the loops over   *)
(* the structures of a structure set and over the contours of a structure  *)
(* in DicomReader.create_masks, for one volume and one RTSTRUCT of its     *)
(* series (src/src/reader.py).  A slice of a mask is a function from cells *)
(* <<row, column>> of the slice to uint8 values; slices are numbered from  *)
(* 0 as in the code.  cv2.fillPoly is taken by its result: a contour       *)
(* carries `fill`, the cells its polygon covers.                           *)
(***************************************************************************)
MaskDepth == 3
MaskRows == 2
MaskCols == 2

(* most copies of one contour in a contour list *)
MaxStacked == 256

(* number of values of numpy's uint8 *)
Uint8 == 256

Slices == 0..(MaskDepth - 1)

Cells == {<<row, column>> : row \in 0..(MaskRows - 1), column \in 0..(MaskCols - 1)}

(* np.zeros([slices, rows, columns], dtype=np.uint8) *)
ZeroMask == [sl \in Slices |-> [cell \in Cells |-> 0]]

(* image = np.zeros(...); cv2.fillPoly(image, new_contour, 1) *)
fillPoly(c) == [cell \in Cells |-> IF cell \in c.fill THEN 1 ELSE 0]

(* uint8 array + uint8 array: numpy wraps modulo 256 *)
AddUint8(a, b) == [cell \in Cells |-> (a[cell] + b[cell]) % Uint8]

(* int(np.round(z)) of a z >= 0 given in tenths: halves go to the even side *)
RoundHalfEven(z) ==
    LET q == z \div 10
        rest == z % 10
    IN IF rest < 5 THEN q
       ELSE IF rest > 5 THEN q + 1
       ELSE IF q % 2 = 0 THEN q ELSE q + 1

(* slice_num of a contour: int(c[0, 2]) in ContourToMask,                  *)
(* int(np.round(c[0, 2])) in ContourToDiscreteMesh                         *)
SliceNum(cls, c) ==
    IF cls = "ContourToMask" THEN c.z \div 10 ELSE RoundHalfEven(c.z)

(* the contours in pixel coordinates a run can be given: z of the first    *)
(* point in tenths of a slice, and the cells the polygon covers            *)
ContourPalette ==
    { [z |-> 0, fill |-> {<<0, 0>>, <<0, 1>>}],
      [z |-> 0, fill |-> {<<0, 1>>, <<1, 1>>}],
      [z |-> 5, fill |-> {<<1, 0>>}],
      [z |-> 8, fill |-> {<<1, 0>>}],
      [z |-> 15, fill |-> {<<0, 0>>}],
      [z |-> 20, fill |-> {<<1, 1>>}] }

(* the contours of one structure of an RTSTRUCT: NumberOfContourPoints,    *)
(* the index in img_sop of the slice the contour refers to, and the cells  *)
(* the polygon of the rounded absolute indices covers (none when the       *)
(* points lie outside the image)                                           *)
SequencePalette ==
    { [NumberOfContourPoints |-> 4, sop_index |-> 0, fill |-> {<<0, 0>>, <<0, 1>>}],
      [NumberOfContourPoints |-> 4, sop_index |-> 0, fill |-> {<<0, 1>>, <<1, 1>>}],
      [NumberOfContourPoints |-> 1, sop_index |-> 1, fill |-> {<<1, 0>>}],
      [NumberOfContourPoints |-> 3, sop_index |-> 2, fill |-> {<<1, 0>>}],
      [NumberOfContourPoints |-> 2, sop_index |-> 1, fill |-> {}] }

Repeat(c, k) == [i \in 1..k |-> c]

(* contour lists: at most one contour, then up to MaxStacked copies of one *)
(* contour, then at most one contour                                       *)
ContourLists(palette) ==
    LET short == {<<>>} \cup {<<c>> : c \in palette}
    IN {a \o Repeat(c, k) \o b :
            a \in short, b \in short, c \in palette,
            k \in {0, 1, 2, MaxStacked - 1, MaxStacked}}

(* most structures of a structure set, beside the sets of one structure *)
MaxStructures == 2

(* the structures of at most two contours *)
ShortStructures ==
    {<<>>} \cup {<<c>> : c \in SequencePalette}
           \cup {<<c, d>> : c \in SequencePalette, d \in SequencePalette}

(* ROIContourSequence of the RTSTRUCT of the volume: one structure of any  *)
(* contour list, or up to MaxStructures short structures                   *)
StructureSets ==
    {<<q>> : q \in ContourLists(SequencePalette)}
        \cup UNION {[1..n -> ShortStructures] : n \in 0..MaxStructures}

RECURSIVE SumRange(_, _, _)
(* the sum of NumberOfContourPoints over the contours lo..hi of a list *)
SumRange(q, lo, hi) ==
    IF lo > hi THEN 0
    ELSE IF lo = hi THEN q[lo].NumberOfContourPoints
    ELSE LET mid == (lo + hi) \div 2
         IN SumRange(q, lo, mid) + SumRange(q, mid + 1, hi)

(* np.sum(np.asarray(points)) *)
SumPoints(q) == SumRange(q, 1, Len(q))

RECURSIVE separate_rt_images(_)
(* roi_sop: the slice the first contour refers to, for every structure of  *)
(* more than 3 contour points                                              *)
separate_rt_images(roi) ==
    IF roi = <<>> THEN <<>>
    ELSE IF SumPoints(Head(roi)) > 3
         THEN <<Head(roi)[1].sop_index>> \o separate_rt_images(Tail(roi))
         ELSE separate_rt_images(Tail(roi))

ReaderIdle ==
    /\ files = <<>>
    /\ only_tags = FALSE
    /\ tpc = <<>>
    /\ tres = <<>>
    /\ ds = <<>>
    /\ ds_modality = EmptyModality
    /\ images = <<>>
    /\ err = "none"

InitMask ==
    /\ ReaderIdle
    /\ idx = 0
    /\ converter \in {"ContourToMask", "ContourToDiscreteMesh", "create_masks"}
    /\ IF converter = "create_masks"
       THEN /\ pc = "rt_df"
            /\ contour_pixel = <<>>
            /\ ROIContourSequence \in StructureSets
            /\ hold_mask = <<>>
            /\ mask = ZeroMask
       ELSE /\ pc = "compute_mask"
            /\ contour_pixel \in ContourLists(ContourPalette)
            /\ ROIContourSequence = <<>>
            /\ hold_mask = ZeroMask
            /\ mask = <<>>
    /\ ContourSequence = <<>>
    /\ kk = 0
    /\ roi_names = <<>>
    /\ roi_info = <<>>
    /\ folder_path = "None"
    /\ file_list = NotGiven
    /\ exclude_files = NotGiven
    /\ slice_check = [sl \in Slices |-> 0]
    /\ box = [r |-> <<>>, col |-> <<>>, s |-> <<>>]
    /\ mask_reduced = <<>>
    /\ array_coordinates = <<>>

(* compute_mask: one pass of `for c in self.contour_pixel` *)
ComputeMaskStep ==
    /\ pc = "compute_mask"
    /\ idx < Len(contour_pixel)
    /\ LET c == contour_pixel[idx + 1]
           image == fillPoly(c)
           slice_num == SliceNum(converter, c)
       IN IF slice_check[slice_num] = 0
          THEN /\ hold_mask' = [hold_mask EXCEPT ![slice_num] = image]
               /\ slice_check' = [slice_check EXCEPT ![slice_num] = 1]
          ELSE /\ hold_mask' = [hold_mask EXCEPT ![slice_num] = AddUint8(@, image)]
               /\ UNCHANGED slice_check
    /\ idx' = idx + 1
    /\ UNCHANGED <<pc, readerVars, converter, contour_pixel, ContourSequence, mask,
                   box, mask_reduced, array_coordinates, roiVars, argVars>>

(* compute_mask: self.mask = (hold_mask > 0).astype(np.uint8) *)
ComputeMaskFinish ==
    /\ pc = "compute_mask"
    /\ idx = Len(contour_pixel)
    /\ mask' = [sl \in Slices |->
                   [cell \in Cells |-> IF hold_mask[sl][cell] > 0 THEN 1 ELSE 0]]
    /\ pc' = "mask_done"
    /\ UNCHANGED <<idx, readerVars, converter, contour_pixel, ContourSequence,
                   slice_check, hold_mask, box, mask_reduced, array_coordinates, roiVars, argVars>>

SeqMin(q) == CHOOSE x \in Range(q) : \A y \in Range(q) : x <= y

SeqMax(q) == CHOOSE x \in Range(q) : \A y \in Range(q) : x >= y

(* a rectangle whose width and height are the last column and row plus one *)
(* rather than the extent of the non-zero cells                            *)
boundingRectFromCorner(image) ==
    LET on == {cell \in Cells : image[cell] # 0}
        rows == {cell[1] : cell \in on}
        columns == {cell[2] : cell \in on}
        lo(S) == CHOOSE x \in S : \A y \in S : x <= y
        hi(S) == CHOOSE x \in S : \A y \in S : x >= y
    IN IF on = {} THEN <<0, 0, 0, 0>>
       ELSE <<lo(columns), lo(rows), hi(columns) + 1, hi(rows) + 1>>

(* cv2.boundingRect(image): <<x, y, width, height>> of the non-zero cells, *)
(* x counting columns and y rows; all 0 for an image without one           *)
boundingRect(image) ==
    LET on == {cell \in Cells : image[cell] # 0}
        rows == {cell[1] : cell \in on}
        columns == {cell[2] : cell \in on}
        lo(S) == CHOOSE x \in S : \A y \in S : x <= y
        hi(S) == CHOOSE x \in S : \A y \in S : x >= y
    IN IF on = {} THEN <<0, 0, 0, 0>>
       ELSE <<lo(columns), lo(rows), hi(columns) - lo(columns) + 1, hi(rows) - lo(rows) + 1>>

(* mask[region[0]:region[1], region[2]:region[3], region[4]:region[5]] *)
Crop(array, region) ==
    [sl \in region[1]..(region[2] - 1) |->
        [cell \in {c \in Cells : /\ region[3] <= c[1] /\ c[1] < region[4]
                                 /\ region[5] <= c[2] /\ c[2] < region[6]}
            |-> array[sl][cell]]]

(* new_mask.size *)
Size(new_mask) ==
    IF DOMAIN new_mask = {} THEN 0
    ELSE Cardinality(DOMAIN new_mask)
           * Cardinality(DOMAIN new_mask[CHOOSE sl \in DOMAIN new_mask : TRUE])

(* create_masks: the test of the structure set against the volume.         *)
(* RoiSOP[0] of a structure set without a structure of more than 3 points  *)
(* raises IndexError; otherwise the loop over the structures starts        *)
CreateMasksEnter ==
    /\ pc = "rt_df"
    /\ LET RoiSOP == separate_rt_images(ROIContourSequence)
       IN IF Len(RoiSOP) = 0
          THEN /\ err' = "IndexError"
               /\ pc' = "raised"
               /\ UNCHANGED <<ContourSequence, slice_check, mask, box>>
          ELSE IF RoiSOP[1] \in Slices
               THEN /\ ContourSequence' = ROIContourSequence[1]
                    /\ slice_check' = [sl \in Slices |-> 0]
                    /\ mask' = ZeroMask
                    /\ box' = [r |-> <<>>, col |-> <<>>, s |-> <<>>]
                    /\ pc' = "create_masks"
                    /\ UNCHANGED err
               ELSE /\ pc' = "no_match"
                    /\ UNCHANGED <<err, ContourSequence, slice_check, mask, box>>
    /\ UNCHANGED <<files, only_tags, tpc, tres, ds, ds_modality, images, idx,
                   converter, contour_pixel, hold_mask, mask_reduced,
                   array_coordinates, roiVars, argVars>>

(* create_masks: one pass of `for c in sequence.ContourSequence` *)
CreateMasksStep ==
    /\ pc = "create_masks"
    /\ idx < Len(ContourSequence)
    /\ LET c == ContourSequence[idx + 1]
           slice_num == MaskDepth - (c.sop_index + 1)
           image == fillPoly(c)
           rect == boundingRect(image)
       IN IF c.NumberOfContourPoints > 1
          THEN /\ IF slice_check[slice_num] = 0
                  THEN /\ mask' = [mask EXCEPT ![slice_num] = image]
                       /\ slice_check' = [slice_check EXCEPT ![slice_num] = 1]
                  ELSE /\ mask' = [mask EXCEPT ![slice_num] = AddUint8(@, image)]
                       /\ UNCHANGED slice_check
               /\ box' = [r |-> box.r \o <<rect[1], rect[1] + rect[3]>>,
                          col |-> box.col \o <<rect[2], rect[2] + rect[4]>>,
                          s |-> Append(box.s, slice_num)]
          ELSE UNCHANGED <<mask, slice_check, box>>
    /\ idx' = idx + 1
    /\ UNCHANGED <<pc, readerVars, converter, contour_pixel, ContourSequence, hold_mask,
                   mask_reduced, array_coordinates, roiVars, argVars>>

(* create_masks: the region of the structure and its cropped mask *)
CreateMasksFinish ==
    /\ pc = "create_masks"
    /\ idx = Len(ContourSequence)
    /\ IF Len(box.s) > 0
       THEN LET region == <<SeqMin(box.s), SeqMax(box.s) + 1,
                            SeqMin(box.col), SeqMax(box.col),
                            SeqMin(box.r), SeqMax(box.r)>>
                new_mask == Crop(mask, region)
            IN IF Size(new_mask) > 1
               THEN /\ roi_names' = Append(roi_names, kk)
                    /\ mask_reduced' = Append(mask_reduced, new_mask)
                    /\ array_coordinates' =
                           Append(array_coordinates,
                                  <<<<region[1], region[2]>>, <<region[3], region[4]>>,
                                    <<region[5], region[6]>>>>)
               ELSE UNCHANGED <<roi_names, mask_reduced, array_coordinates>>
       ELSE UNCHANGED <<roi_names, mask_reduced, array_coordinates>>
    /\ pc' = "masks_done"
    /\ UNCHANGED <<idx, readerVars, converter, contour_pixel, ContourSequence,
                   slice_check, hold_mask, mask, box, ROIContourSequence, kk, roi_info,
                   argVars>>

(* create_masks: `for kk, sequence in enumerate(roi_sequence)` takes the   *)
(* next structure, with a new mask, slice_check, r, col and s              *)
CreateMasksNext ==
    /\ pc = "masks_done"
    /\ kk + 1 < Len(ROIContourSequence)
    /\ kk' = kk + 1
    /\ ContourSequence' = ROIContourSequence[kk + 2]
    /\ slice_check' = [sl \in Slices |-> 0]
    /\ mask' = ZeroMask
    /\ box' = [r |-> <<>>, col |-> <<>>, s |-> <<>>]
    /\ idx' = 0
    /\ pc' = "create_masks"
    /\ UNCHANGED <<readerVars, converter, contour_pixel, hold_mask, mask_reduced,
                   array_coordinates, ROIContourSequence, roi_names, roi_info,
                   argVars>>

(* create_masks: what is stored for the volume after the last structure;   *)
(* None when no mask was kept                                              *)
CreateMasksStore ==
    /\ \/ pc = "masks_done" /\ kk + 1 = Len(ROIContourSequence)
       \/ pc = "no_match"
    /\ roi_info' = IF Len(mask_reduced) > 0
                   THEN [RoiNames |-> roi_names, ArrayCoordinates |-> array_coordinates]
                   ELSE [RoiNames |-> "None", ArrayCoordinates |-> "None"]
    /\ pc' = "roi_stored"
    /\ UNCHANGED <<idx, readerVars, converter, contour_pixel, ContourSequence,
                   slice_check, hold_mask, mask, box, mask_reduced, array_coordinates,
                   ROIContourSequence, kk, roi_names, argVars>>

NextMask ==
    \/ ComputeMaskStep
    \/ ComputeMaskFinish
    \/ CreateMasksEnter
    \/ CreateMasksStep
    \/ CreateMasksFinish
    \/ CreateMasksNext
    \/ CreateMasksStore

SpecMask == InitMask /\ [][NextMask]_vars

(***************************************************************************)
(* Vocabulary of the claims on the masks                                   *)
(***************************************************************************)
MaskComputed == pc = "mask_done"

MasksCreated == pc = "masks_done"

(* some polygon of the list on slice sl covers the cell *)
Covered(sl, cell) ==
    \E k \in 1..Len(contour_pixel) :
        SliceNum(converter, contour_pixel[k]) = sl /\ cell \in contour_pixel[k].fill

(***************************************************************************)
(* C19: when compute_mask has returned, a voxel of the mask is 1 if the    *)
(* fill of at least one polygon on its slice covers it and 0 otherwise,    *)
(* for any number of polygons on the slice.                                *)
(***************************************************************************)
C19_MaskIsUnionOfFills ==
    MaskComputed =>
        \A sl \in Slices : \A cell \in Cells :
            mask[sl][cell] = IF Covered(sl, cell) THEN 1 ELSE 0

(***************************************************************************)
(* C20: every cropped mask create_masks produced for a structure holds     *)
(* only the values 0 and 1.                                                *)
(***************************************************************************)
C20_CroppedMaskBinary ==
    MasksCreated =>
        \A m \in 1..Len(mask_reduced) :
            \A sl \in DOMAIN mask_reduced[m] : \A cell \in DOMAIN mask_reduced[m][sl] :
                mask_reduced[m][sl][cell] \in {0, 1}

(***************************************************************************)
(* Vocabulary of the claims on the bounding region.  A recorded region is  *)
(* <<<<s0, s1>>, <<y0, y1>>, <<x0, x1>>>>: slices, rows and columns, the   *)
(* upper bounds exclusive.                                                 *)
(***************************************************************************)
NonZero == {<<sl, cell>> \in Slices \X Cells : mask[sl][cell] # 0}

InRegion(region, sl, cell) ==
    /\ region[1][1] <= sl /\ sl < region[1][2]
    /\ region[2][1] <= cell[1] /\ cell[1] < region[2][2]
    /\ region[3][1] <= cell[2] /\ cell[2] < region[3][2]

(* every face of the region touches a non-zero voxel *)
FacesTight(region) ==
    /\ \E v \in NonZero : v[1] = region[1][1]
    /\ \E v \in NonZero : v[1] = region[1][2] - 1
    /\ \E v \in NonZero : v[2][1] = region[2][1]
    /\ \E v \in NonZero : v[2][1] = region[2][2] - 1
    /\ \E v \in NonZero : v[2][2] = region[3][1]
    /\ \E v \in NonZero : v[2][2] = region[3][2] - 1

(***************************************************************************)
(* C21: the region create_masks records with a mask is the minimal box     *)
(* around the rasterized structure: the accumulated mask is zero outside   *)
(* the region and every face of the region touches a non-zero voxel.       *)
(***************************************************************************)
C21_MinimalBoundingBox ==
    MasksCreated =>
        \A m \in 1..Len(array_coordinates) :
            roi_names[m] = kk =>
                /\ \A v \in NonZero : InRegion(array_coordinates[m], v[1], v[2])
                /\ FacesTight(array_coordinates[m])

(***************************************************************************)
(* C22: every region create_masks records lies within the index range of   *)
(* the volume: on the slice, row and column axes                           *)
(* 0 <= min <= max <= the dimension of the volume on that axis.            *)
(***************************************************************************)
C22_RegionWithinVolume ==
    MasksCreated =>
        \A m \in 1..Len(array_coordinates) :
            LET region == array_coordinates[m]
            IN /\ 0 <= region[1][1] /\ region[1][1] <= region[1][2]
               /\ region[1][2] <= MaskDepth
               /\ 0 <= region[2][1] /\ region[2][1] <= region[2][2]
               /\ region[2][2] <= MaskRows
               /\ 0 <= region[3][1] /\ region[3][1] <= region[3][2]
               /\ region[3][2] <= MaskCols

(* a recorded region that starts after column 0 and ends on the last       *)
(* column and the last slice of the volume                                 *)
C22_Witness ==
    /\ MasksCreated
    /\ \E m \in 1..Len(array_coordinates) :
           /\ array_coordinates[m][3][1] > 0
           /\ array_coordinates[m][3][2] = MaskCols
           /\ array_coordinates[m][1][2] = MaskDepth

(***************************************************************************)
(* Vocabulary of the claims on structure sets.                             *)
(***************************************************************************)
(* create_masks returned or raised *)
MasksEnded == pc \in {"roi_stored", "raised"}

(* the structure has no polygon of at least 2 points *)
NoPolygon(sequence) ==
    \A k \in 1..Len(sequence) : sequence[k].NumberOfContourPoints < 2

(* some polygon of at least 2 points of the structure covers 2 cells *)
HasExtent(sequence) ==
    \E k \in 1..Len(sequence) :
        /\ sequence[k].NumberOfContourPoints >= 2
        /\ Cardinality(sequence[k].fill) >= 2

(***************************************************************************)
(* C23: when a structure set holds a structure without a polygon of at     *)
(* least 2 points, or no contour point at all, create_masks raises no      *)
(* error, such a structure gets no mask with a voxel in it, and the other  *)
(* structures still get their masks.                                       *)
(***************************************************************************)
C23_EmptyStructureHarmless ==
    (/\ MasksEnded
     /\ converter = "create_masks"
     /\ \A k \in 1..Len(ROIContourSequence) : \E j \in 1..Len(ROIContourSequence) :
            NoPolygon(ROIContourSequence[j]))
    => /\ err = "none"
       /\ \A m \in 1..Len(roi_names) :
              NoPolygon(ROIContourSequence[roi_names[m] + 1]) => Size(mask_reduced[m]) = 0
       /\ \A k \in 1..Len(ROIContourSequence) :
              HasExtent(ROIContourSequence[k]) => \E m \in 1..Len(roi_names) : roi_names[m] = k - 1

(***************************************************************************)
(* The constructor of Reader and Reader.file_parsar, from                  *)
(* src/medicalimageanalysis/reader.py.  A file path is the sequence of its *)
(* characters; the folder_path None is the string "None".                  *)
(***************************************************************************)
(* most paths in a file_list *)
MaxListed == 2

PathPalette ==
    { <<"a", ".", "d", "c", "m">>,
      <<"b", ".", "m", "h", "d">>,
      <<"c", ".", "r", "a", "w">>,
      <<"d", ".", "n", "i", "i", ".", "g", "z">>,
      <<"e", ".", "t", "a", "r", ".", "g", "z">>,
      <<"f", ".", "s", "t", "l">>,
      <<"g", ".", "v", "t", "k">>,
      <<"h", ".", "3", "m", "f">>,
      <<"i">>,
      <<"j", ".", "t", "x", "t">>,
      <<".", "d", "c", "m">>,
      <<"s", "/", "k", ".", "d", "c", "m">> }

(* os.walk(folder_path): the files under the folders of the model *)
os_walk(folder) ==
    IF folder = "scans"
    THEN <<<<"a", ".", "d", "c", "m">>, <<"s", "/", "k", ".", "d", "c", "m">>, <<"d", ".", "n", "i", "i", ".", "g", "z">>, <<"j", ".", "t", "x", "t">>>>
    ELSE <<>>

(* os.path.splitext(filepath)[1]: from the last dot of the last path       *)
(* component, when a character other than a dot precedes it there          *)
splitext(filepath) ==
    LET seps == {k \in 1..Len(filepath) : filepath[k] = "/"}
        start == IF seps = {} THEN 1
                 ELSE (CHOOSE k \in seps : \A j \in seps : j <= k) + 1
        dots == {k \in start..Len(filepath) : filepath[k] = "."}
        last == CHOOSE k \in dots : \A j \in dots : j <= k
    IN IF dots = {} THEN <<>>
       ELSE IF \A k \in start..(last - 1) : filepath[k] = "." THEN <<>>
       ELSE SubSeq(filepath, last, Len(filepath))

(* filepath[-6:] *)
LastSix(filepath) ==
    IF Len(filepath) <= 6 THEN filepath
    ELSE SubSeq(filepath, Len(filepath) - 5, Len(filepath))

FileKeys == {"Dicom", "MHD", "Raw", "Nifti", "Stl", "Vtk", "3mf", "NoExtension"}

(* the list of the dictionary a path is appended to, "none" when the       *)
(* if/elif chain of file_parsar appends it to no list                      *)
KeyOf(filepath) ==
    LET file_extension == splitext(filepath)
    IN IF file_extension = <<".", "d", "c", "m">> THEN "Dicom"
       ELSE IF file_extension = <<".", "m", "h", "d">> THEN "MHD"
       ELSE IF file_extension = <<".", "r", "a", "w">> THEN "Raw"
       ELSE IF file_extension = <<".", "g", "z">>
            THEN IF LastSix(filepath) = <<"n", "i", "i", ".", "g", "z">> THEN "Nifti" ELSE "none"
       ELSE IF file_extension = <<".", "s", "t", "l">> THEN "Stl"
       ELSE IF file_extension = <<".", "v", "t", "k">> THEN "Vtk"
       ELSE IF file_extension = <<".", "3", "m", "f">> THEN "3mf"
       ELSE IF file_extension = <<>> THEN "NoExtension"
       ELSE "none"

(* Reader.file_parsar: the value of self.files *)
file_parsar(folder, list, exclude) ==
    LET excluded == IF exclude.given THEN exclude.paths ELSE <<>>
        listed == IF list.given THEN list.paths ELSE os_walk(folder)
    IN [key \in FileKeys |->
           LET Kept(filepath) == /\ filepath \notin Range(excluded)
                                 /\ KeyOf(filepath) = key
           IN SelectSeq(listed, Kept)]

InitReader ==
    /\ pc = "construct"
    /\ folder_path \in {"None", "scans", "empty"}
    /\ file_list \in {NotGiven}
           \cup {Given(list) : list \in UNION {[1..n -> PathPalette] : n \in 0..MaxListed}}
    /\ exclude_files \in {NotGiven, Given(<<>>)}
           \cup {Given(<<filepath>>) : filepath \in PathPalette}
    /\ files = "None"
    /\ only_tags = FALSE
    /\ idx = 0
    /\ tpc = <<>>
    /\ tres = <<>>
    /\ ds = <<>>
    /\ ds_modality = EmptyModality
    /\ images = <<>>
    /\ err = "none"
    /\ converter = "none"
    /\ contour_pixel = <<>>
    /\ ContourSequence = <<>>
    /\ slice_check = <<>>
    /\ hold_mask = <<>>
    /\ mask = <<>>
    /\ box = <<>>
    /\ mask_reduced = <<>>
    /\ array_coordinates = <<>>
    /\ ROIContourSequence = <<>>
    /\ kk = 0
    /\ roi_names = <<>>
    /\ roi_info = <<>>

(* Reader.__init__: `folder_path is not None or file_list is not N0ne`     *)
(* evaluates the undefined name N0ne whenever folder_path is None          *)
Reader_init ==
    /\ pc = "construct"
    /\ IF folder_path # "None"
       THEN /\ files' = file_parsar(folder_path, file_list, exclude_files)
            /\ pc' = "constructed"
            /\ UNCHANGED err
       ELSE /\ err' = "NameError"
            /\ pc' = "raised"
            /\ UNCHANGED files
    /\ UNCHANGED <<only_tags, idx, tpc, tres, ds, ds_modality, images, maskVars, argVars>>

NextReader == Reader_init

SpecReader == InitReader /\ [][NextReader]_vars

(* the constructor returned or raised *)
Constructed == pc \in {"constructed", "raised"}

(***************************************************************************)
(* C24: a Reader constructed with file_list alone (folder_path None) is    *)
(* built without error, and its dictionary holds, under the key of each    *)
(* extension, exactly the listed files of that extension that are not in   *)
(* exclude_files, in the order of the list.                                *)
(***************************************************************************)
C24_FileListAlone ==
    (Constructed /\ folder_path = "None" /\ file_list.given) =>
        /\ err = "none"
        /\ \A key \in FileKeys :
               LET Wanted(filepath) ==
                       /\ filepath \notin Range(exclude_files.paths)
                       /\ KeyOf(filepath) = key
               IN files[key] = SelectSeq(file_list.paths, Wanted)

(* sl is an integer nearest to z, given in tenths of a slice *)
Nearest(sl, z) == Abs(10 * sl - z) <= 5

(***************************************************************************)
(* C25: every polygon is rasterized onto the slice whose index is its      *)
(* through-plane pixel coordinate rounded to the nearest integer: a pass   *)
(* of compute_mask changes hold_mask only on a slice nearest to the z of   *)
(* the polygon it takes.                                                   *)
(***************************************************************************)
C25_SliceIsNearest ==
    [][(pc = "compute_mask" /\ idx' = idx + 1) =>
           \A sl \in Slices :
               hold_mask'[sl] # hold_mask[sl] => Nearest(sl, contour_pixel[idx + 1].z)]_vars

(* the slices of the volume lie at pairwise distinct positions *)
DistinctPositions(v) ==
    \A j \in 1..Len(v.image_set) : \A k \in 1..Len(v.image_set) :
        j # k => v.image_set[j].ImagePositionPatient # v.image_set[k].ImagePositionPatient

(***************************************************************************)
(* C26: for every volume built from two or more slices at distinct         *)
(* positions, spacing[2] is strictly positive, whether the row x column    *)
(* direction points along or against the ascending sorting axis.           *)
(***************************************************************************)
C26_SpacingPositive ==
    Built =>
        \A i \in 1..Len(images) :
            LET v == images[i]
            IN (Len(v.image_set) >= 2 /\ DistinctPositions(v)) =>
                  /\ v.spacing[3][2] # 0
                  /\ v.spacing[3][1] * v.spacing[3][2] > 0

(* the places <<modality, list, index>> of the slice lists that hold d *)
PlacesOf(d) ==
    {place \in UNION {{<<m, j, k>> : j \in 1..Len(ds_modality[m]), k \in 1..MaxFiles} :
                         m \in Modalities3d} :
        /\ place[3] <= Len(ds_modality[place[1]][place[2]])
        /\ ds_modality[place[1]][place[2]][place[3]] = d}

(***************************************************************************)
(* C27: grouping loses and duplicates no slice: every ingested record of a *)
(* 3D modality is at exactly one place of exactly one slice list, also     *)
(* when the first record of its (series, acquisition) group lacks the      *)
(* orientation or the position tag.                                        *)
(***************************************************************************)
C27_NoSliceLost ==
    Grouped => \A d \in Records3d : Cardinality(PlacesOf(d)) = 1

(* the slice lists of the 3D modalities, as <<modality, index>> *)
GroupPlaces3d == UNION {{<<m, j>> : j \in 1..Len(ds_modality[m])} : m \in Modalities3d}

(* the volumes built from the slice list at a place *)
VolumesOf(place) ==
    {i \in 1..Len(images) : images[i].image_set = ds_modality[place[1]][place[2]]}

(***************************************************************************)
(* C28: image_creation turns every slice list of a 3D modality (CT, MR,    *)
(* PT, NM) into exactly one volume: there are as many volumes as 3D slice  *)
(* lists.                                                                  *)
(***************************************************************************)
C28_OneVolumePerGroup ==
    Built =>
        /\ \A place \in GroupPlaces3d : Cardinality(VolumesOf(place)) = 1
        /\ Len(images) = Cardinality(GroupPlaces3d)

C30_TagsOnlyBuilds ==
    (Ended /\ only_tags) =>
        /\ pc = "done"
        /\ err = "none"
        /\ \A m \in {"CT", "MR"} : \A j \in 1..Len(ds_modality[m]) :
               \E i \in 1..Len(images) : images[i].image_set = ds_modality[m][j]
        /\ \A i \in 1..Len(images) : images[i].array = <<>>

====
